---- MODULE Spec2Model ----
(***************************************************************************)
(* A model of the two driver adapters of griptape:                         *)
(*   griptape/drivers/embedding/openai_embedding_driver.py                 *)
(*   griptape/drivers/prompt/hugging_face_hub_prompt_driver.py             *)
(*                                                                         *)
(* The program is single threaded: one operation (a construction or a      *)
(* method call) runs at a time.  pc = "idle" between operations; try_run   *)
(* is followed line by line, the other operations are one step each.       *)
(* Strings whose characters matter (model ids, chunks, generated texts)    *)
(* are sequences of one-character strings.  Calls that leave the program   *)
(* (the redaction hooks, the inference client, openai.Embedding.create)    *)
(* return a value chosen by the environment or raise one of Errors; every  *)
(* such call is appended to trace.                                         *)
(***************************************************************************)
EXTENDS Integers, Sequences, FiniteSets, TLC

VARIABLES
    openai,                  \* the openai module's process-wide configuration
    embedding_drivers,       \* the OpenAiEmbeddingDriver objects, in construction order
    prompt_driver,           \* the HuggingFaceHubPromptDriver object, if one was constructed
    pc,                      \* position of the running operation
    call,                    \* the running (or last finished) operation and its arguments
    processed_prompt_stack,  \* try_run's locals
    prompt,
    response,
    processed_response,
    trace,                   \* calls made by the running operation, in order
    outcome                  \* how the last operation ended: a return or a raise

vars == <<openai, embedding_drivers, prompt_driver, pc, call, processed_prompt_stack,
          prompt, response, processed_response, trace, outcome>>

(***************************************************************************)
(* Bounds and input domains                                                *)
(***************************************************************************)
MaxDrivers == 2
MaxChunkLen == 2
MaxChoices == 2

None == <<>>
Some(v) == <<v>>

RECURSIVE SeqsUpTo(_, _)
SeqsUpTo(S, n) ==
    IF n = 0 THEN {<<>>}
    ELSE LET shorter == SeqsUpTo(S, n - 1)
         IN  shorter \cup {Append(s, x) : s \in {t \in shorter : Len(t) = n - 1}, x \in S}

\* model identifiers: a legacy one, the default's shape, one that only starts with "001"
Models == {<<"a", "0", "0", "1">>, <<"a", "0", "0", "2">>, <<"0", "0", "1", "a">>}

\* the openai module's configuration as imported, and an Azure one differing in every field
LibraryConfig ==
    [api_type |-> "open_ai", api_version |-> "None", api_base |-> "https://api.openai.com/v1",
     api_key |-> "env-key", organization |-> "None"]
AzureConfig ==
    [api_type |-> "azure", api_version |-> "2023-05-15", api_base |-> "https://x.azure.com",
     api_key |-> "azure-key", organization |-> "org-1"]
Configs == {LibraryConfig, AzureConfig}

Chunks == SeqsUpTo({"a", "\n"}, MaxChunkLen)

Embeddings == {<<1, 2>>, <<3, 4>>}
EmbeddingResponses == {[data |-> <<[embedding |-> e]>>] : e \in Embeddings}

Errors == {"APIError", "Timeout"}

Tasks == {"text2text-generation", "text-generation", "summarization"}
DriverParams == {<<>>, [max_new_tokens |-> 10]}

PromptStacks ==
    {<<[role |-> "user", content |-> "question"]>>,
     <<[role |-> "system", content |-> "rules"], [role |-> "user", content |-> "my name"]>>}

Whitespace == {" ", "\t", "\n", "\r", "\f"}
GeneratedTexts ==
    {<<"a">>, <<" ">>, <<"\t", "a", " ", "b", "\n">>}
Choices == {[generated_text |-> t] : t \in GeneratedTexts}
Responses == SeqsUpTo(Choices, MaxChoices)
\* what the inference client answers before redaction
ClientResponses ==
    {<<[generated_text |-> <<" ", "p", "i", "i">>]>>,
     <<[generated_text |-> <<"a">>], [generated_text |-> <<" ">>]>>}

(***************************************************************************)
(* Pure helpers                                                            *)
(***************************************************************************)
\* a prefix test where the suffix test belongs
endswith_prefix(s, suffix) ==
    /\ Len(s) >= Len(suffix)
    /\ SubSeq(s, 1, Len(suffix)) = suffix

\* str.endswith
endswith(s, suffix) ==
    /\ Len(s) >= Len(suffix)
    /\ SubSeq(s, Len(s) - Len(suffix) + 1, Len(s)) = suffix

\* str.replace for a one-character old
RECURSIVE replace(_, _, _)
replace(s, old, new) ==
    IF s = <<>> THEN <<>>
    ELSE <<IF Head(s) = old THEN new ELSE Head(s)>> \o replace(Tail(s), old, new)

RECURSIVE lstrip(_)
lstrip(s) ==
    IF s # <<>> /\ Head(s) \in Whitespace THEN lstrip(Tail(s)) ELSE s

RECURSIVE rstrip(_)
rstrip(s) ==
    IF s # <<>> /\ s[Len(s)] \in Whitespace THEN rstrip(SubSeq(s, 1, Len(s) - 1)) ELSE s

\* only the leading whitespace goes
strip_left_only(s) == lstrip(s)

\* str.strip
strip(s) == rstrip(lstrip(s))

\* dict | dict: the right operand wins
Merge(a, b) ==
    [k \in DOMAIN a \cup DOMAIN b |-> IF k \in DOMAIN b THEN b[k] ELSE a[k]]

\* BasePromptDriver.prompt_stack_to_string: the stack projected to one string
RECURSIVE prompt_stack_to_string(_)
prompt_stack_to_string(stack) ==
    IF stack = <<>> THEN <<>>
    ELSE <<Head(stack).role, Head(stack).content>> \o prompt_stack_to_string(Tail(stack))

Return(v) == Some([kind |-> "return", value |-> v])
Raise(e) == Some([kind |-> "raise", error |-> e])
NoCall == [op |-> "none", arg |-> None]
Event(op, arg, res) == [op |-> op, arg |-> arg, res |-> res]

(***************************************************************************)
(* OpenAiEmbeddingDriver                                                   *)
(***************************************************************************)
\* the organization assignment is lost
attrs_post_init_keeps_organization(self) ==
    [api_type |-> self.api_type,
     api_version |-> self.api_version,
     api_base |-> self.api_base,
     api_key |-> self.api_key,
     organization |-> openai.organization]

\* __attrs_post_init__: the module configuration after constructing self
attrs_post_init(self) ==
    [api_type |-> self.api_type,
     api_version |-> self.api_version,
     api_base |-> self.api_base,
     api_key |-> self.api_key,
     organization |-> self.organization]

\* OpenAiEmbeddingDriver(model=..., api_type=..., ...)
OpenAiEmbeddingDriver(model, cfg) ==
    LET self == [model |-> model, api_type |-> cfg.api_type, api_version |-> cfg.api_version,
                 api_base |-> cfg.api_base, api_key |-> cfg.api_key,
                 organization |-> cfg.organization]
    IN  /\ pc = "idle"
        /\ Len(embedding_drivers) < MaxDrivers
        /\ call' = [op |-> "OpenAiEmbeddingDriver", arg |-> self]
        /\ embedding_drivers' = Append(embedding_drivers, self)
        /\ openai' = attrs_post_init(self)
        /\ outcome' = Return(Len(embedding_drivers) + 1)
        /\ pc' = "done"
        /\ UNCHANGED <<prompt_driver, processed_prompt_stack, prompt, response,
                       processed_response, trace>>

\* the key is read from the module instead of the driver
params_module_key(self, chunk) ==
    [input |-> chunk,
     model |-> self.model,
     api_key |-> openai.api_key,
     organization |-> self.organization,
     api_version |-> self.api_version,
     api_base |-> self.api_base,
     api_type |-> self.api_type]

\* _params
_params(self, chunk) ==
    [input |-> chunk,
     model |-> self.model,
     api_key |-> self.api_key,
     organization |-> self.organization,
     api_version |-> self.api_version,
     api_base |-> self.api_base,
     api_type |-> self.api_type]

\* the chunk as try_embed_chunk submits it
embed_input(self, chunk) ==
    IF endswith(self.model, <<"0", "0", "1">>) THEN replace(chunk, "\n", " ") ELSE chunk

\* what the environment answers to a call: a value or an error
Answers(values) ==
    {[ok |-> TRUE, value |-> v] : v \in values} \cup {[ok |-> FALSE, error |-> e] : e \in Errors}

\* a failed request is submitted a second time
embed_chunk_run_retry(self, chunk, answer) ==
    LET request == _params(self, embed_input(self, chunk))
    IN  IF answer.ok
        THEN [trace |-> <<Event("openai.Embedding.create", request, Return(answer.value))>>,
              outcome |-> Return(answer.value.data[1].embedding)]
        ELSE [trace |-> <<Event("openai.Embedding.create", request, Raise(answer.error)),
                          Event("openai.Embedding.create", request, Raise(answer.error))>>,
              outcome |-> Raise(answer.error)]

\* the calls try_embed_chunk makes and how it ends, when openai.Embedding.create
\* answers with answer
embed_chunk_run(self, chunk, answer) ==
    LET request == _params(self, embed_input(self, chunk))
    IN  IF answer.ok
        THEN [trace |-> <<Event("openai.Embedding.create", request, Return(answer.value))>>,
              outcome |-> Return(answer.value.data[1].embedding)]
        ELSE [trace |-> <<Event("openai.Embedding.create", request, Raise(answer.error))>>,
              outcome |-> Raise(answer.error)]

try_embed_chunk(d, chunk, answer) ==
    LET run == embed_chunk_run(embedding_drivers[d], chunk, answer)
    IN  /\ pc = "idle"
        /\ call' = [op |-> "try_embed_chunk", arg |-> [self |-> d, chunk |-> chunk]]
        /\ trace' = run.trace
        /\ outcome' = run.outcome
        /\ pc' = "done"
        /\ UNCHANGED <<openai, embedding_drivers, prompt_driver, processed_prompt_stack,
                       prompt, response, processed_response>>

(***************************************************************************)
(* HuggingFaceHubPromptDriver                                              *)
(***************************************************************************)
\* the allow-list lets every task through
SUPPORTED_TASKS_all == {"text2text-generation", "text-generation", "summarization"}

SUPPORTED_TASKS == {"text2text-generation", "text-generation"}
MAX_NEW_TOKENS == 250
DEFAULT_PARAMS == [return_full_text |-> FALSE, max_new_tokens |-> MAX_NEW_TOKENS]

UnsupportedTask == "Exception: only models with the following tasks are supported"
ChoiceCount == "Exception: completion with more than one choice is not supported yet"
StreamingInvalid == "ValueError: streaming is not supported"
StreamingNotImplemented == "NotImplementedError: streaming is not supported"

TextArtifact(value) == [type |-> "TextArtifact", value |-> value]

\* the validator accepts streaming
validate_stream_accepts(stream) == FALSE

\* the stream validator: TRUE when it raises
validate_stream(stream) == stream

\* HuggingFaceHubPromptDriver(client=<a client of this task>, params=..., stream=...)
HuggingFaceHubPromptDriver(task, driver_params, stream) ==
    LET self == [task |-> task, params |-> driver_params, stream |-> stream]
    IN  /\ pc = "idle"
        /\ call' = [op |-> "HuggingFaceHubPromptDriver", arg |-> self]
        /\ IF validate_stream(stream)
           THEN /\ outcome' = Raise(StreamingInvalid)
                /\ UNCHANGED prompt_driver
           ELSE /\ outcome' = Return("driver")
                /\ prompt_driver' = Some(self)
        /\ pc' = "done"
        /\ UNCHANGED <<openai, embedding_drivers, processed_prompt_stack, prompt, response,
                       processed_response, trace>>

\* try_run is entered with the caller's prompt stack
try_run(prompt_stack) ==
    /\ pc = "idle"
    /\ prompt_driver # None
    /\ call' = [op |-> "try_run", arg |-> prompt_stack]
    /\ pc' = "l69"
    /\ UNCHANGED <<openai, embedding_drivers, prompt_driver, processed_prompt_stack, prompt,
                   response, processed_response, trace, outcome>>

\* line 69: processed_prompt_stack = self.pii_processor.before_run(prompt_stack)
try_run_before_run(answer) ==
    /\ pc = "l69"
    /\ IF answer.ok
       THEN /\ processed_prompt_stack' = Some(answer.value)
            /\ trace' = Append(trace, Event("before_run", call.arg, Return(answer.value)))
            /\ pc' = "l70"
            /\ UNCHANGED outcome
       ELSE /\ trace' = Append(trace, Event("before_run", call.arg, Raise(answer.error)))
            /\ outcome' = Raise(answer.error)
            /\ pc' = "done"
            /\ UNCHANGED processed_prompt_stack
    /\ UNCHANGED <<openai, embedding_drivers, prompt_driver, call, prompt, response,
                   processed_response>>

\* the caller's stack is flattened, not the hook's output
try_run_flatten_unprocessed ==
    /\ pc = "l70"
    /\ prompt' = Some(prompt_stack_to_string(call.arg))
    /\ trace' = Append(trace, Event("prompt_stack_to_string", call.arg,
                                    Return(prompt_stack_to_string(call.arg))))
    /\ pc' = "l72"
    /\ UNCHANGED <<openai, embedding_drivers, prompt_driver, call, processed_prompt_stack,
                   response, processed_response, outcome>>

\* line 70: prompt = self.prompt_stack_to_string(processed_prompt_stack)
try_run_flatten ==
    /\ pc = "l70"
    /\ prompt' = Some(prompt_stack_to_string(processed_prompt_stack[1]))
    /\ trace' = Append(trace, Event("prompt_stack_to_string", processed_prompt_stack[1],
                                    Return(prompt_stack_to_string(processed_prompt_stack[1]))))
    /\ pc' = "l72"
    /\ UNCHANGED <<openai, embedding_drivers, prompt_driver, call, processed_prompt_stack,
                   response, processed_response, outcome>>

\* lines 72, 80-81: if self.client.task in self.SUPPORTED_TASKS ... else raise
try_run_task ==
    /\ pc = "l72"
    /\ IF prompt_driver[1].task \in SUPPORTED_TASKS
       THEN /\ pc' = "l73"
            /\ UNCHANGED outcome
       ELSE /\ outcome' = Raise(UnsupportedTask)
            /\ pc' = "done"
    /\ UNCHANGED <<openai, embedding_drivers, prompt_driver, call, processed_prompt_stack,
                   prompt, response, processed_response, trace>>

\* line 73: response = self.client(inputs=prompt, params=self.DEFAULT_PARAMS | self.params)
try_run_client(answer) ==
    LET request == [inputs |-> prompt[1],
                    params |-> Merge(DEFAULT_PARAMS, prompt_driver[1].params)]
    IN  /\ pc = "l73"
        /\ IF answer.ok
           THEN /\ response' = Some(answer.value)
                /\ trace' = Append(trace, Event("client", request, Return(answer.value)))
                /\ pc' = "l74"
                /\ UNCHANGED outcome
           ELSE /\ trace' = Append(trace, Event("client", request, Raise(answer.error)))
                /\ outcome' = Raise(answer.error)
                /\ pc' = "done"
                /\ UNCHANGED response
        /\ UNCHANGED <<openai, embedding_drivers, prompt_driver, call, processed_prompt_stack,
                       prompt, processed_response>>

\* line 74: processed_response = self.pii_processor.after_run(response)
try_run_after_run(answer) ==
    /\ pc = "l74"
    /\ IF answer.ok
       THEN /\ processed_response' = Some(answer.value)
            /\ trace' = Append(trace, Event("after_run", response[1], Return(answer.value)))
            /\ pc' = "l76"
            /\ UNCHANGED outcome
       ELSE /\ trace' = Append(trace, Event("after_run", response[1], Raise(answer.error)))
            /\ outcome' = Raise(answer.error)
            /\ pc' = "done"
            /\ UNCHANGED processed_response
    /\ UNCHANGED <<openai, embedding_drivers, prompt_driver, call, processed_prompt_stack,
                   prompt, response>>

\* only more than one choice is refused
choice_result_many_only(choices) ==
    IF Len(choices) > 1
    THEN Raise(ChoiceCount)
    ELSE IF Len(choices) = 0
         THEN Raise("IndexError")
         ELSE Return(TextArtifact(strip(choices[1].generated_text)))

\* lines 76-79: one choice gives the artifact, any other count raises
choice_result(choices) ==
    IF Len(choices) = 1
    THEN Return(TextArtifact(strip(choices[1].generated_text)))
    ELSE Raise(ChoiceCount)

try_run_choice ==
    /\ pc = "l76"
    /\ outcome' = choice_result(processed_response[1])
    /\ pc' = "done"
    /\ UNCHANGED <<openai, embedding_drivers, prompt_driver, call, processed_prompt_stack,
                   prompt, response, processed_response, trace>>

\* streaming yields nothing instead of raising
try_stream_empty(prompt_stack) ==
    /\ pc = "idle"
    /\ prompt_driver # None
    /\ call' = [op |-> "try_stream", arg |-> prompt_stack]
    /\ outcome' = Return(<<>>)
    /\ pc' = "done"
    /\ UNCHANGED <<openai, embedding_drivers, prompt_driver, processed_prompt_stack, prompt,
                   response, processed_response, trace>>

\* try_stream raises at once
try_stream(prompt_stack) ==
    /\ pc = "idle"
    /\ prompt_driver # None
    /\ call' = [op |-> "try_stream", arg |-> prompt_stack]
    /\ outcome' = Raise(StreamingNotImplemented)
    /\ pc' = "done"
    /\ UNCHANGED <<openai, embedding_drivers, prompt_driver, processed_prompt_stack, prompt,
                   response, processed_response, trace>>

\* the operation hands its outcome to the caller; its frame is gone
Finish ==
    /\ pc = "done"
    /\ pc' = "idle"
    /\ processed_prompt_stack' = None
    /\ prompt' = None
    /\ response' = None
    /\ processed_response' = None
    /\ trace' = <<>>
    /\ outcome' = None
    /\ call' = NoCall
    /\ UNCHANGED <<openai, embedding_drivers, prompt_driver>>

Init ==
    /\ openai = LibraryConfig
    /\ embedding_drivers = <<>>
    /\ prompt_driver = None
    /\ pc = "idle"
    /\ call = NoCall
    /\ processed_prompt_stack = None
    /\ prompt = None
    /\ response = None
    /\ processed_response = None
    /\ trace = <<>>
    /\ outcome = None

Next ==
    \/ \E model \in Models, cfg \in Configs : OpenAiEmbeddingDriver(model, cfg)
    \/ \E d \in 1..Len(embedding_drivers), chunk \in Chunks,
          answer \in Answers(EmbeddingResponses) : try_embed_chunk(d, chunk, answer)
    \/ \E task \in Tasks, driver_params \in DriverParams, stream \in BOOLEAN :
          HuggingFaceHubPromptDriver(task, driver_params, stream)
    \/ \E prompt_stack \in PromptStacks : try_run(prompt_stack)
    \/ \E answer \in Answers(PromptStacks) : try_run_before_run(answer)
    \/ try_run_flatten
    \/ try_run_task
    \/ \E answer \in Answers(ClientResponses) : try_run_client(answer)
    \/ \E answer \in Answers(Responses) : try_run_after_run(answer)
    \/ try_run_choice
    \/ \E prompt_stack \in PromptStacks : try_stream(prompt_stack)
    \/ Finish

Spec == Init /\ [][Next]_vars
(***************************************************************************)
(* Properties                                                              *)
(***************************************************************************)
Finished(op) == pc = "done" /\ call.op = op
Raised == outcome # None /\ outcome[1].kind = "raise"
Returned == outcome # None /\ outcome[1].kind = "return"
Calls(op) == SelectSeq(trace, LAMBDA e : e.op = op)
ReturnedBy(e) == e.res[1].kind = "return"
ConfigOf(self) ==
    [api_type |-> self.api_type, api_version |-> self.api_version,
     api_base |-> self.api_base, api_key |-> self.api_key,
     organization |-> self.organization]

\* r is s without its leading and trailing whitespace
IsStripped(r, s) ==
    /\ \E i \in 0..Len(s) : \E j \in i..Len(s) :
          /\ r = SubSeq(s, i + 1, j)
          /\ \A k \in 1..i : s[k] \in Whitespace
          /\ \A k \in (j + 1)..Len(s) : s[k] \in Whitespace
    /\ r # <<>> => r[1] \notin Whitespace /\ r[Len(r)] \notin Whitespace

\* C1, as stated: when try_run ends on a driver whose client task is outside the
\* allow-list, it has raised and neither before_run nor after_run was invoked.
C1_NoHookOnUnsupportedTask ==
    (Finished("try_run")
        /\ prompt_driver[1].task \notin {"text2text-generation", "text-generation"})
    => /\ Raised
       /\ Calls("before_run") = <<>>
       /\ Calls("after_run") = <<>>

\* C1, amended: when try_run ends on a driver whose client task is outside the
\* allow-list, it has raised, neither the inference client nor after_run was
\* invoked, and before_run was invoked exactly once, on the caller's prompt stack.
C1_UnsupportedTaskRaises ==
    (Finished("try_run")
        /\ prompt_driver[1].task \notin {"text2text-generation", "text-generation"})
    => /\ Raised
       /\ Calls("client") = <<>>
       /\ Calls("after_run") = <<>>
       /\ Len(Calls("before_run")) = 1
       /\ trace[1].op = "before_run"
       /\ trace[1].arg = call.arg

C1_Witness ==
    /\ Finished("try_run")
    /\ prompt_driver[1].task = "summarization"
    /\ outcome = Raise(UnsupportedTask)
    /\ Len(trace) = 2

\* C2: when try_run reaches the choice count with a supported task, one choice
\* returns a TextArtifact whose value is that choice's generated_text without its
\* leading and trailing whitespace, and more than one choice raises.
C2_OneChoiceStripped ==
    (Finished("try_run") /\ processed_response # None)
    => LET choices == processed_response[1]
       IN  /\ Len(choices) = 1 =>
                /\ Returned
                /\ outcome[1].value.type = "TextArtifact"
                /\ IsStripped(outcome[1].value.value, choices[1].generated_text)
           /\ Len(choices) > 1 =>
                /\ Raised
                /\ outcome[1].error = ChoiceCount

C2_Witness ==
    /\ Finished("try_run")
    /\ processed_response = Some(<<[generated_text |-> <<"\t", "a", " ", "b", "\n">>]>>)
    /\ outcome = Return(TextArtifact(<<"a", " ", "b">>))

\* C3: the input try_embed_chunk submits is the chunk with every newline turned
\* into a space when the model id ends in "001", and the chunk itself otherwise.
C3_NewlinesReplacedForLegacy ==
    Finished("try_embed_chunk")
    => LET model == embedding_drivers[call.arg.self].model
           chunk == call.arg.chunk
           n == Len(model)
           legacy == n >= 3 /\ model[n - 2] = "0" /\ model[n - 1] = "0" /\ model[n] = "1"
       IN  /\ Len(trace) >= 1
           /\ \A r \in 1..Len(trace) :
                LET sent == trace[r].arg.input
                IN  /\ Len(sent) = Len(chunk)
                    /\ \A i \in 1..Len(chunk) :
                         sent[i] = IF legacy /\ chunk[i] = "\n" THEN " " ELSE chunk[i]

C3_Witness ==
    /\ Finished("try_embed_chunk")
    /\ embedding_drivers[call.arg.self].model = <<"a", "0", "0", "1">>
    /\ call.arg.chunk = <<"a", "\n">>
    /\ trace[1].arg.input = <<"a", " ">>

\* C4: a try_run that returns has made exactly these calls in this order:
\* before_run on the caller's stack, the flattening of what before_run returned,
\* the client with the flattened prompt, after_run on the client's response; and
\* it returns one TextArtifact made from what after_run returned.  In every
\* state, a prompt given to the client is the flattening of before_run's output.
C4_StepsInOrder ==
    /\ (call.op = "try_run" /\ Calls("client") # <<>>)
       => /\ Len(trace) >= 3
          /\ trace[1].op = "before_run" /\ ReturnedBy(trace[1])
          /\ trace[1].arg = call.arg
          /\ trace[2].op = "prompt_stack_to_string" /\ ReturnedBy(trace[2])
          /\ trace[2].arg = trace[1].res[1].value
          /\ trace[3].op = "client"
          /\ trace[3].arg.inputs = trace[2].res[1].value
    /\ (Finished("try_run") /\ Returned)
       => /\ Len(trace) = 4
          /\ ReturnedBy(trace[3])
          /\ trace[4].op = "after_run" /\ ReturnedBy(trace[4])
          /\ trace[4].arg = trace[3].res[1].value
          /\ Len(trace[4].res[1].value) = 1
          /\ outcome[1].value.type = "TextArtifact"
          /\ IsStripped(outcome[1].value.value, trace[4].res[1].value[1].generated_text)

C4_Witness ==
    /\ Finished("try_run")
    /\ Returned
    /\ trace[1].res[1].value # call.arg
    /\ trace[4].res[1].value # trace[4].arg
    /\ outcome[1].value.value = <<"a", " ", "b">>

\* C5: a construction with stream enabled raises, whatever the task and params,
\* and the driver object never has stream = TRUE.
C5_StreamNeverConstructed ==
    /\ prompt_driver # None => prompt_driver[1].stream = FALSE
    /\ (Finished("HuggingFaceHubPromptDriver") /\ call.arg.stream)
       => Raised /\ outcome[1].error = StreamingInvalid

C5_Witness ==
    /\ Finished("HuggingFaceHubPromptDriver")
    /\ call.arg.stream
    /\ call.arg.task = "text-generation"
    /\ Raised
    /\ prompt_driver # None

\* C6: try_stream ends by raising the not-implemented error, having called neither
\* a redaction hook nor the client.
C6_StreamNotImplemented ==
    Finished("try_stream")
    => /\ outcome = Raise(StreamingNotImplemented)
       /\ trace = <<>>

C6_Witness ==
    /\ Finished("try_stream")
    /\ Raised
    /\ prompt_driver[1].task = "text-generation"
    /\ prompt_driver[1].params # <<>>

\* C7: an invocation of try_embed_chunk or try_run submits at most one request;
\* when the request fails, the invocation ends by raising that same error, and
\* in try_run after_run is then not invoked.
C7_NoRetry ==
    /\ call.op = "try_embed_chunk" =>
         /\ Len(Calls("openai.Embedding.create")) <= 1
         /\ \A i \in 1..Len(trace) :
              (pc = "done" /\ ~ReturnedBy(trace[i])) => outcome = trace[i].res
    /\ call.op = "try_run" =>
         /\ Len(Calls("client")) <= 1
         /\ \A i \in 1..Len(trace) :
              (pc = "done" /\ trace[i].op = "client" /\ ~ReturnedBy(trace[i]))
              => /\ outcome = trace[i].res
                 /\ Calls("after_run") = <<>>

C7_Witness ==
    /\ Finished("try_run")
    /\ Len(trace) = 3
    /\ trace[3].op = "client"
    /\ trace[3].res = Raise("Timeout")
    /\ outcome = Raise("Timeout")

\* C8: the process-wide configuration is that of the most recently constructed
\* OpenAiEmbeddingDriver (the library's own before any construction), whatever
\* calls were made since.
C8_GlobalIsLastConstructed ==
    openai = IF embedding_drivers = <<>>
             THEN LibraryConfig
             ELSE ConfigOf(embedding_drivers[Len(embedding_drivers)])

C8_Witness ==
    /\ Finished("try_embed_chunk")
    /\ Len(embedding_drivers) = 2
    /\ call.arg.self = 1
    /\ ConfigOf(embedding_drivers[1]) = AzureConfig
    /\ openai = LibraryConfig

\* C9: every request of try_embed_chunk carries the calling driver's own model,
\* api_key, organization, api_version, api_base and api_type.
C9_RequestCarriesOwnConfig ==
    Finished("try_embed_chunk")
    => LET self == embedding_drivers[call.arg.self]
       IN  /\ trace # <<>>
           /\ \A i \in 1..Len(trace) :
                /\ trace[i].arg.model = self.model
                /\ trace[i].arg.api_key = self.api_key
                /\ trace[i].arg.organization = self.organization
                /\ trace[i].arg.api_version = self.api_version
                /\ trace[i].arg.api_base = self.api_base
                /\ trace[i].arg.api_type = self.api_type

C9_Witness ==
    /\ Finished("try_embed_chunk")
    /\ Len(embedding_drivers) = 2
    /\ call.arg.self = 1
    /\ ConfigOf(embedding_drivers[1]) = LibraryConfig
    /\ ConfigOf(embedding_drivers[2]) = AzureConfig
    /\ openai = AzureConfig
    /\ trace[1].arg.api_key = "env-key"

\* C10: try_run returns only when the redacted response has exactly one choice;
\* a redacted response with no choice raises the choice-count error; a finished
\* try_run has either returned one TextArtifact or raised.
C10_EmptyResponseRaises ==
    Finished("try_run")
    => /\ Returned => /\ processed_response # None
                      /\ Len(processed_response[1]) = 1
                      /\ outcome[1].value.type = "TextArtifact"
       /\ (processed_response # None /\ Len(processed_response[1]) = 0)
          => outcome = Raise(ChoiceCount)
       /\ Returned \/ Raised

C10_Witness ==
    /\ Finished("try_run")
    /\ processed_response = Some(<<>>)
    /\ response # Some(<<>>)
    /\ outcome = Raise(ChoiceCount)
====
